---- MODULE Spec2Model ----
(***************************************************************************)
(* Model of the music-library backend (src/server.js): the Express routes  *)
(* GET /songs, POST /songs and DELETE /songs/:id over two external stores, *)
(* the MongoDB collection of Song documents and the Supabase bucket.       *)
(*                                                                         *)
(* A handler runs without interruption from one `await` to the next, so    *)
(* every action below is one such run: the arrival of a request up to its  *)
(* first awaited call, or the return of an awaited call up to the next     *)
(* awaited call or the response.  The effect of an awaited store call is   *)
(* applied when it returns.  Handlers of different requests interleave.    *)
(*                                                                         *)
(* Strings are sequences of one-character strings, so that building the    *)
(* object name, building the public URL and taking the URL's last segment  *)
(* are computed and not assumed to be inverse to each other.               *)
(***************************************************************************)
EXTENDS Integers, Sequences, FiniteSets, TLC

\* ------------------------------------------------------------------ bounds
NumRequests == 2      \* requests that arrive in one behaviour
MaxNow == 2           \* Date.now() ranges over 1..MaxNow

Reqs == 1..NumRequests

\* ----------------------------------------------------------------- strings
Max(S) == CHOOSE x \in S : \A y \in S : y <= x

DigitChars == <<"0", "1", "2", "3", "4", "5", "6", "7", "8", "9">>

RECURSIVE Digits(_)
\* The decimal text of a natural number, as template-literal interpolation
\* and Number.prototype.toString produce it.
Digits(n) ==
    IF n < 10 THEN <<DigitChars[n + 1]>>
    ELSE Digits(n \div 10) \o <<DigitChars[(n % 10) + 1]>>

\* req.file.originalname of the uploads a client may send.
OriginalNames == { <<"a">>, <<"a", " ", "b">> }

\* req.file when the multipart body carries no "song" part (undefined).
NoFile == [originalname |-> <<>>, buffer |-> ""]

\* req.file.buffer of the uploads a client may send.
Buffers == {"x", "y"}

Files == [originalname : OriginalNames, buffer : Buffers]

\* `${Date.now()}-${file.originalname}`
MakeFilename(t, f) == Digits(t) \o <<"-">> \o f.originalname

\* encodeURI on one character of the model's alphabet: letters, digits and
\* - . / : are kept, a space and a percent sign are percent-escaped.
EncodeChar(c) ==
    CASE c = " " -> <<"%", "2", "0">>
      [] c = "%" -> <<"%", "2", "5">>
      [] OTHER   -> <<c>>

RECURSIVE EncodeURI(_)
EncodeURI(s) ==
    IF s = <<>> THEN <<>> ELSE EncodeChar(Head(s)) \o EncodeURI(Tail(s))

\* The bucket's public object prefix, "<storage url>/object/public/<bucket>".
PublicPrefix == <<"h", ":", "/", "/", "s", "/", "o", "/", "p", "/", "b">>

\* supabase.storage.from(bucket).getPublicUrl(filename).data.publicUrl:
\* the client library returns encodeURI(`${url}/object/public/${bucket}/${path}`).
GetPublicUrl(filename) == EncodeURI(PublicPrefix \o <<"/">> \o filename)

\* url.split("/").pop()
LastSegment(url) ==
    LET slashes == {i \in 1..Len(url) : url[i] = "/"}
    IN  IF slashes = {} THEN url
        ELSE SubSeq(url, Max(slashes) + 1, Len(url))

\* ------------------------------------------------------------------- state
VARIABLES
    now,        \* Date.now(), in milliseconds
    songs,      \* the Song collection: a set of documents [_id, url]
    blobs,      \* the bucket: a set of objects [name, buffer, by], one per name
    method,     \* the route each request matched: "", "GET", "POST", "DELETE"
    pc,         \* where each request's handler stands
    file,       \* req.file of a POST
    filename,   \* the object name a POST computed
    id,         \* req.params.id of a DELETE
    song,       \* what findByIdAndDelete returned to a DELETE
    newSong,    \* the document a POST built with `new Song`
    uploadResult, \* what the upload of a POST returned: "none", "ok", "error"
    calls,      \* how often each request invoked each store call / responded
    res,        \* the response sent: [status, error, details]
    stream      \* one request to the range-streaming responder

vars == <<now, songs, blobs, method, pc, file, filename, id, song, newSong,
          uploadResult, calls, res, stream>>

NoSong == [_id |-> 0, url |-> <<>>]
NoRes == [status |-> 0, error |-> "", details |-> ""]
NoCalls == [upload |-> 0, save |-> 0, find |-> 0, findByIdAndDelete |-> 0,
            remove |-> 0, respond |-> 0]

\* Ids a DELETE may name.  A document's _id is the ObjectId mongoose
\* generates for `new Song`, unique per document; the model names it by the
\* request that created it.  MalformedId stands for a path segment that is
\* no 24-hex-digit ObjectId string (DELETE /songs/abc).
MalformedId == 0
DeleteIds == Reqs \cup {MalformedId}

\* No stream request.
NoStream ==
    [pc |-> "off", reqStart |-> 0, reqEnd |-> 0, header |-> <<>>, size |-> 0,
     found |-> FALSE, resolves |-> FALSE, status |-> 0, contentRange |-> <<>>,
     contentLength |-> 0, body |-> <<>>, pos |-> 0, last |-> 0, opened |-> 0,
     aborted |-> FALSE]

Init ==
    /\ now = 1
    /\ songs = {}
    /\ blobs = {}
    /\ method = [r \in Reqs |-> ""]
    /\ pc = [r \in Reqs |-> "idle"]
    /\ file = [r \in Reqs |-> NoFile]
    /\ filename = [r \in Reqs |-> <<>>]
    /\ id = [r \in Reqs |-> MalformedId]
    /\ song = [r \in Reqs |-> NoSong]
    /\ newSong = [r \in Reqs |-> NoSong]
    /\ uploadResult = [r \in Reqs |-> "none"]
    /\ calls = [r \in Reqs |-> NoCalls]
    /\ res = [r \in Reqs |-> NoRes]
    /\ stream = NoStream

\* --------------------------------------------------------------- utilities
\* res.status(s).json({error, details}) / res.json(...): one response, after
\* which the handler returns.
Respond(r, s, e, d) ==
    /\ res' = [res EXCEPT ![r] = [status |-> s, error |-> e, details |-> d]]
    /\ pc' = [pc EXCEPT ![r] = "done"]

SongIds == {s._id : s \in songs}
SongById(i) == CHOOSE s \in songs : s._id = i
BlobNames == {b.name : b \in blobs}

\* storage.upload(name, buffer, {upsert: true}): creates or overwrites.
Upsert(name, buffer, by) ==
    {b \in blobs : b.name # name} \cup {[name |-> name, buffer |-> buffer, by |-> by]}

\* storage.remove([name]): removes the object of that name, if there is one.
Remove(name) == {b \in blobs : b.name # name}

\* The wall clock advances between any two steps.
Tick ==
    /\ now < MaxNow
    /\ now' = now + 1
    /\ UNCHANGED <<songs, blobs, method, pc, file, filename, id, song, newSong,
                   uploadResult, calls, res, stream>>

\* ------------------------------------------------------------ GET /songs
GetSongs(r) ==
    /\ pc[r] = "idle"
    /\ method' = [method EXCEPT ![r] = "GET"]
    /\ pc' = [pc EXCEPT ![r] = "get_find"]
    /\ calls' = [calls EXCEPT ![r].find = @ + 1]
    /\ UNCHANGED <<now, songs, blobs, file, filename, id, song, newSong,
                   uploadResult, res>>
    /\ UNCHANGED stream

\* Song.find() resolves (res.json(songs)) or rejects (catch: 500).
GetSongsReturn(r, result) ==
    /\ pc[r] = "get_find"
    /\ IF result = "ok"
       THEN Respond(r, 200, "", "")
       ELSE Respond(r, 500, "Failed to fetch songs", "")
    /\ calls' = [calls EXCEPT ![r].respond = @ + 1]
    /\ UNCHANGED <<now, method, songs, blobs, file, filename, id, song, newSong, uploadResult>>
    /\ UNCHANGED stream

\* ----------------------------------------------------------- POST /songs
\* The missing-file check left out.
FileMissingNever(f) == FALSE

\* if (!file)
FileMissing(f) == f = NoFile

\* Arrival of POST /songs up to the awaited storage.upload call.
PostSongs(r, f) ==
    /\ pc[r] = "idle"
    /\ method' = [method EXCEPT ![r] = "POST"]
    /\ file' = [file EXCEPT ![r] = f]
    /\ IF FileMissing(f)
       THEN /\ Respond(r, 400, "No file uploaded", "")
            /\ calls' = [calls EXCEPT ![r].respond = @ + 1]
            /\ UNCHANGED filename
       ELSE /\ filename' = [filename EXCEPT ![r] = MakeFilename(now, f)]
            /\ calls' = [calls EXCEPT ![r].upload = @ + 1]
            /\ pc' = [pc EXCEPT ![r] = "post_upload"]
            /\ UNCHANGED res
    /\ UNCHANGED <<now, songs, blobs, id, song, newSong, uploadResult>>
    /\ UNCHANGED stream

\* The uploadError check left out.
UploadFailedNever(result) == FALSE

\* if (uploadError)
UploadFailed(result) == result = "error"

\* The uploadError branch re-issuing the upload instead of reporting it.
PostUploadErrorRetry(r) ==
    /\ calls' = [calls EXCEPT ![r].upload = @ + 1]
    /\ UNCHANGED <<pc, res, newSong>>

\* The uploadError branch reporting 500 but saving the document all the same.
PostUploadErrorSaves(r) ==
    /\ newSong' = [newSong EXCEPT ![r] = [_id |-> r, url |-> GetPublicUrl(filename[r])]]
    /\ calls' = [calls EXCEPT ![r].save = @ + 1]
    /\ pc' = [pc EXCEPT ![r] = "post_save"]
    /\ res' = [res EXCEPT ![r] = [status |-> 500, error |-> "Supabase upload failed",
                                  details |-> "uploadError.message"]]

\* return res.status(500).json({error: "Supabase upload failed", details})
PostUploadError(r) ==
    /\ Respond(r, 500, "Supabase upload failed", "uploadError.message")
    /\ calls' = [calls EXCEPT ![r].respond = @ + 1]
    /\ UNCHANGED newSong

\* getPublicUrl, new Song({..., url}), and the awaited newSong.save() call.
PostBuildAndSave(r) ==
    /\ newSong' = [newSong EXCEPT ![r] = [_id |-> r, url |-> GetPublicUrl(filename[r])]]
    /\ calls' = [calls EXCEPT ![r].save = @ + 1]
    /\ pc' = [pc EXCEPT ![r] = "post_save"]
    /\ UNCHANGED res

\* storage.upload returns {data, error}; up to the awaited save or the 500.
PostUploadReturn(r, result) ==
    /\ pc[r] = "post_upload"
    /\ uploadResult' = [uploadResult EXCEPT ![r] = result]
    /\ blobs' = IF result = "ok"
                THEN Upsert(filename[r], file[r].buffer, r)
                ELSE blobs
    /\ IF UploadFailed(result) THEN PostUploadError(r) ELSE PostBuildAndSave(r)
    /\ UNCHANGED <<now, method, songs, file, filename, id, song>>
    /\ UNCHANGED stream

\* newSong.save() resolves (res.json(newSong)) or rejects (catch: 500).
PostSaveReturn(r, result) ==
    /\ pc[r] = "post_save"
    /\ IF result = "ok"
       THEN /\ songs' = songs \cup {newSong[r]}
            /\ Respond(r, 200, "", "")
       ELSE /\ UNCHANGED songs
            /\ Respond(r, 500, "Upload failed", "err.message")
    /\ calls' = [calls EXCEPT ![r].respond = @ + 1]
    /\ UNCHANGED <<now, method, blobs, file, filename, id, song, newSong, uploadResult>>
    /\ UNCHANGED stream

\* ----------------------------------------------------- DELETE /songs/:id
\* Song.findByIdAndDelete(id) rejects with a CastError when id cannot be
\* cast to an ObjectId.
CastFails(i) == i = MalformedId

\* Arrival of DELETE /songs/:id up to the awaited findByIdAndDelete call.
DeleteSong(r, i) ==
    /\ pc[r] = "idle"
    /\ method' = [method EXCEPT ![r] = "DELETE"]
    /\ id' = [id EXCEPT ![r] = i]
    /\ calls' = [calls EXCEPT ![r].findByIdAndDelete = @ + 1]
    /\ pc' = [pc EXCEPT ![r] = "del_find"]
    /\ UNCHANGED <<now, songs, blobs, file, filename, song, newSong, uploadResult, res>>
    /\ UNCHANGED stream

\* findByIdAndDelete returns; up to the awaited storage.remove or a response.
FindByIdAndDeleteReturn(r) ==
    /\ pc[r] = "del_find"
    /\ IF CastFails(id[r])
       THEN /\ Respond(r, 500, "Delete failed", "err.message")
            /\ calls' = [calls EXCEPT ![r].respond = @ + 1]
            /\ UNCHANGED <<songs, song>>
       ELSE IF id[r] \notin SongIds
       THEN /\ Respond(r, 404, "Song not found", "")
            /\ calls' = [calls EXCEPT ![r].respond = @ + 1]
            /\ UNCHANGED <<songs, song>>
       ELSE /\ song' = [song EXCEPT ![r] = SongById(id[r])]
            /\ songs' = songs \ {SongById(id[r])}
            /\ calls' = [calls EXCEPT ![r].remove = @ + 1]
            /\ pc' = [pc EXCEPT ![r] = "del_remove"]
            /\ UNCHANGED res
    /\ UNCHANGED <<now, method, blobs, file, filename, id, newSong, uploadResult>>
    /\ UNCHANGED stream

\* storage.remove([song.url.split("/").pop()]) returns {error}.
RemoveReturn(r, result) ==
    /\ pc[r] = "del_remove"
    /\ IF result = "error"
       THEN /\ UNCHANGED blobs
            /\ Respond(r, 500, "Supabase delete failed", "deleteError.message")
       ELSE /\ blobs' = Remove(LastSegment(song[r].url))
            /\ Respond(r, 200, "", "")
    /\ calls' = [calls EXCEPT ![r].respond = @ + 1]
    /\ UNCHANGED <<now, method, songs, file, filename, id, song, newSong, uploadResult>>
    /\ UNCHANGED stream

\* ------------------------------------------------------------ the program
Next ==
    \/ Tick
    \/ \E r \in Reqs : GetSongs(r)
    \/ \E r \in Reqs, result \in {"ok", "throw"} : GetSongsReturn(r, result)
    \/ \E r \in Reqs, f \in Files \cup {NoFile} : PostSongs(r, f)
    \/ \E r \in Reqs, result \in {"ok", "error"} : PostUploadReturn(r, result)
    \/ \E r \in Reqs, result \in {"ok", "throw"} : PostSaveReturn(r, result)
    \/ \E r \in Reqs, i \in DeleteIds : DeleteSong(r, i)
    \/ \E r \in Reqs : FindByIdAndDeleteReturn(r)
    \/ \E r \in Reqs, result \in {"ok", "error"} : RemoveReturn(r, result)

Spec == Init /\ [][Next]_vars

\* ======================================================== range streaming
\* The Range Parser and the Stream Responder (specification sections 4.1 and
\* 4.2).  One stream request is drawn by StreamInit; StreamSpec runs it.
MaxFileSize == 4      \* the resource size N ranges over 1..MaxFileSize
ChunkSize == 2        \* bytes one read of the byte source delivers

\* The byte at offset k of the resource.
SourceByte(k) == (7 * k + 3) % 256

\* The bytes at offsets a..b, in order.
Slice(a, b) == [i \in 1..(IF b >= a THEN b - a + 1 ELSE 0) |-> SourceByte(a + i - 1)]

Min(a, b) == IF a <= b THEN a ELSE b

DigitValue(c) == CHOOSE d \in 0..9 : DigitChars[d + 1] = c

RECURSIVE ParseInt(_)
\* parseInt(text, 10) of a non-empty run of decimal digits.
ParseInt(t) ==
    IF Len(t) = 1 THEN DigitValue(t[1])
    ELSE 10 * ParseInt(SubSeq(t, 1, Len(t) - 1)) + DigitValue(t[Len(t)])

BytesPrefix == <<"b", "y", "t", "e", "s", "=">>

\* The header a client sends for the range s-e; e = -1 omits the end.
RangeHeader(s, e) ==
    BytesPrefix \o Digits(s) \o <<"-">> \o (IF e < 0 THEN <<>> ELSE Digits(e))

\* Strip the "bytes=" prefix and split on "-": the two segments.
RangeParts(h) ==
    LET t == SubSeq(h, Len(BytesPrefix) + 1, Len(h))
        d == CHOOSE i \in 1..Len(t) : t[i] = "-" /\ \A j \in 1..(i - 1) : t[j] # "-"
    IN  <<SubSeq(t, 1, d - 1), SubSeq(t, d + 1, Len(t))>>

\* The first segment, parsed.
RangeStart(h) == ParseInt(RangeParts(h)[1])

\* The end defaulting to N instead of N - 1.
RangeEndPastEof(h, n) ==
    IF RangeParts(h)[2] # <<>> THEN ParseInt(RangeParts(h)[2]) ELSE n

\* The second segment, parsed, if present; else N - 1.
RangeEnd(h, n) ==
    IF RangeParts(h)[2] # <<>> THEN ParseInt(RangeParts(h)[2]) ELSE n - 1

\* The unsatisfiable-range check comparing with > instead of >=.
UnsatisfiablePastEof(start, n) == start > n

\* Unsatisfiable range: start >= N.
Unsatisfiable(start, n) == start >= n

\* Content-Range: bytes start-end/N
ContentRange(start, end, n) ==
    <<"b", "y", "t", "e", "s", " ">> \o Digits(start) \o <<"-">> \o Digits(end)
        \o <<"/">> \o Digits(n)

StreamRequests ==
    { [NoStream EXCEPT !.pc = "wait", !.reqStart = a, !.reqEnd = b,
                       !.header = RangeHeader(a, b), !.size = n,
                       !.found = fd, !.resolves = rs] :
        a \in 0..(MaxFileSize + 1), b \in -1..(MaxFileSize + 1),
        n \in 1..MaxFileSize, fd \in BOOLEAN, rs \in BOOLEAN }
    \cup
    { [NoStream EXCEPT !.pc = "wait", !.reqStart = -1, !.reqEnd = -1,
                       !.size = n, !.found = fd, !.resolves = rs] :
        n \in 1..MaxFileSize, fd \in BOOLEAN, rs \in BOOLEAN }

StreamInit ==
    /\ now = 1
    /\ songs = {}
    /\ blobs = {}
    /\ method = [r \in Reqs |-> ""]
    /\ pc = [r \in Reqs |-> "idle"]
    /\ file = [r \in Reqs |-> NoFile]
    /\ filename = [r \in Reqs |-> <<>>]
    /\ id = [r \in Reqs |-> MalformedId]
    /\ song = [r \in Reqs |-> NoSong]
    /\ newSong = [r \in Reqs |-> NoSong]
    /\ uploadResult = [r \in Reqs |-> "none"]
    /\ calls = [r \in Reqs |-> NoCalls]
    /\ res = [r \in Reqs |-> NoRes]
    /\ stream \in StreamRequests

mainVars == <<now, songs, blobs, method, pc, file, filename, id, song, newSong,
              uploadResult, calls, res>>

\* The request up to the response headers: 404 without a record, 500 when the
\* resource does not resolve, 416 for an unsatisfiable range, else 200 or 206
\* and one read cursor opened on the resource.
StreamRespond ==
    /\ stream.pc = "wait"
    /\ stream' =
         IF ~stream.found THEN [stream EXCEPT !.pc = "done", !.status = 404]
         ELSE IF ~stream.resolves THEN [stream EXCEPT !.pc = "done", !.status = 500]
         ELSE IF stream.header = <<>>
         THEN [stream EXCEPT !.pc = "streaming", !.status = 200,
                             !.contentLength = stream.size,
                             !.pos = 0, !.last = stream.size - 1, !.opened = 1]
         ELSE LET start == RangeStart(stream.header)
                  end == RangeEnd(stream.header, stream.size)
              IN  IF Unsatisfiable(start, stream.size)
                  THEN [stream EXCEPT !.pc = "done", !.status = 416]
                  ELSE [stream EXCEPT !.pc = "streaming", !.status = 206,
                                      !.contentRange = ContentRange(start, end, stream.size),
                                      !.contentLength = end - start + 1,
                                      !.pos = start, !.last = end, !.opened = 1]
    /\ UNCHANGED mainVars

\* The last offset the cursor delivers: the range's end, or the end of file.
StreamLast == Min(stream.last, stream.size - 1)

\* One chunk of the byte source is read and written to the response.
StreamChunk ==
    /\ stream.pc = "streaming"
    /\ stream.pos <= StreamLast
    /\ LET upto == Min(stream.pos + ChunkSize - 1, StreamLast)
       IN  stream' = [stream EXCEPT !.body = @ \o Slice(stream.pos, upto),
                                    !.pos = upto + 1]
    /\ UNCHANGED mainVars

\* The cursor is exhausted: the response ends.
StreamEnd ==
    /\ stream.pc = "streaming"
    /\ stream.pos > StreamLast
    /\ stream' = [stream EXCEPT !.pc = "done"]
    /\ UNCHANGED mainVars

\* The client disconnects mid-stream: the stream is aborted.
StreamAbort ==
    /\ stream.pc = "streaming"
    /\ stream' = [stream EXCEPT !.pc = "done", !.aborted = TRUE]
    /\ UNCHANGED mainVars

StreamNext == StreamRespond \/ StreamChunk \/ StreamEnd \/ StreamAbort

StreamSpec == StreamInit /\ [][StreamNext]_vars

\* ================================================================= claims
\* The object name under which the upload of the record's creating request
\* was stored (a document's _id names the request that created it).
StoredName(s) == filename[s._id]

\* C1: a Song document is saved only after the upload of the same request
\* returned without error: no request has called save, and no document is in
\* the collection, unless that request's upload returned ok.
C1_SaveOnlyAfterUpload ==
    /\ \A r \in Reqs : calls[r].save > 0 => uploadResult[r] = "ok"
    /\ \A s \in songs : /\ uploadResult[s._id] = "ok"
                        /\ calls[s._id].upload = 1

C1_Witness == \E s \in songs : uploadResult[s._id] = "ok"

\* C2 (as claimed): when findByIdAndDelete returns to a DELETE whose id names
\* no document, the response is 404, storage.remove is not called and both
\* stores are left as they were.
C2_AbsentIdIs404 ==
    [][\A r \in Reqs :
          (pc[r] = "del_find" /\ pc'[r] # "del_find" /\ id[r] \notin SongIds)
          => /\ res'[r].status = 404
             /\ calls'[r].remove = 0
             /\ songs' = songs
             /\ blobs' = blobs]_vars

\* C3: when the upload of a POST returns an error the response is 500 with
\* the storage error's message, save is never called for the request, no
\* document of the request exists, and the steps of the request leave the
\* collection as it was.
C3_UploadFailureSkipsSave ==
    /\ [](\A r \in Reqs :
            uploadResult[r] = "error"
            => /\ res[r].status = 500
               /\ res[r].details = "uploadError.message"
               /\ calls[r].save = 0
               /\ r \notin SongIds)
    /\ [][\A r \in Reqs :
            (pc'[r] # pc[r] /\ method'[r] = "POST" /\ uploadResult'[r] # "ok")
            => songs' = songs]_vars

C3_Witness ==
    \E r \in Reqs : uploadResult[r] = "error" /\ res[r].status = 500 /\ songs # {}

\* C4: a POST without a file is answered 400 in its first step, without a
\* call of upload or save, and that step leaves both stores as they were.
C4_NoFileIs400 ==
    /\ [](\A r \in Reqs :
            (method[r] = "POST" /\ file[r] = NoFile)
            => /\ res[r].status = 400
               /\ pc[r] = "done"
               /\ calls[r].upload = 0
               /\ calls[r].save = 0)
    /\ [][\A r \in Reqs :
            (method[r] = "" /\ method'[r] = "POST" /\ file'[r] = NoFile)
            => (songs' = songs /\ blobs' = blobs)]_vars

C4_Witness ==
    \E r \in Reqs : method[r] = "POST" /\ file[r] = NoFile /\ res[r].status = 400

\* C5 (as claimed): storage.remove is called only once the document is
\* deleted; when it returns an error the response is 500, the document stays
\* deleted and the blob of the document stays in the bucket; when it returns
\* without error the response is 200 and neither the document nor its blob
\* remains.
C5_DeleteRecordThenBlob ==
    [][\A r \in Reqs :
          (pc[r] = "del_remove" /\ pc'[r] = "done")
          => /\ song[r]._id \notin SongIds
             /\ song[r]._id \notin {s._id : s \in songs'}
             /\ res'[r].status \in {200, 500}
             /\ res'[r].status = 500 => StoredName(song[r]) \in {b.name : b \in blobs'}
             /\ res'[r].status = 200 => StoredName(song[r]) \notin {b.name : b \in blobs'}]_vars

\* C6 (as claimed): every document's location refers to exactly one blob:
\* the blob exists, holds the bytes its creating request uploaded, and is the
\* blob of no other document.
C6_LocationRefersToOneBlob ==
    \A s \in songs :
        /\ \E b \in blobs : b.name = StoredName(s) /\ b.buffer = file[s._id].buffer
        /\ \A t \in songs : t # s => StoredName(t) # StoredName(s)

\* C9: no request calls a store operation or responds more than once, and a
\* request whose upload or blob removal failed has responded once and is over.
C9_NoRetries ==
    \A r \in Reqs :
        /\ calls[r].upload <= 1
        /\ calls[r].save <= 1
        /\ calls[r].findByIdAndDelete <= 1
        /\ calls[r].remove <= 1
        /\ calls[r].respond <= 1
        /\ uploadResult[r] = "error"
           => (pc[r] = "done" /\ calls[r].respond = 1 /\ calls[r].save = 0)
        /\ res[r].error = "Supabase delete failed"
           => (pc[r] = "done" /\ calls[r].respond = 1 /\ calls[r].remove = 1)

C9_Witness ==
    /\ \E r \in Reqs : calls[r].upload = 1 /\ calls[r].save = 1 /\ pc[r] = "done"
    /\ \E r \in Reqs : res[r].error = "Supabase delete failed" /\ calls[r].remove = 1

\* C10 (as claimed): the object name DELETE derives from a document's url,
\* its last "/"-separated segment, is the name under which the document's
\* upload was stored; for the documents in the collection and for the
\* document a DELETE is about to remove the blob of.
C10_DeleteNameIsUploadName ==
    /\ \A s \in songs : LastSegment(s.url) = StoredName(s)
    /\ \A r \in Reqs : pc[r] = "del_remove" => LastSegment(song[r].url) = StoredName(song[r])

\* A stream request for an existing, resolvable resource with a range header.
StreamRanged == stream.found /\ stream.resolves /\ stream.reqStart >= 0

\* The end the request asks for: as sent, or N - 1 when omitted.
StreamAskedEnd == IF stream.reqEnd < 0 THEN stream.size - 1 ELSE stream.reqEnd

\* C7: for a valid range (0 <= start <= end <= N-1, end defaulting to N-1)
\* the response is 206 with Content-Range "bytes start-end/N" and
\* Content-Length end-start+1, the bytes emitted are always a prefix of the
\* source slice [start, end], and all of it once the response has ended
\* without the client disconnecting.
C7_ValidRangeIs206 ==
    (/\ stream.pc \in {"streaming", "done"}
     /\ StreamRanged
     /\ stream.reqStart <= StreamAskedEnd
     /\ StreamAskedEnd <= stream.size - 1)
    => LET whole == Slice(stream.reqStart, StreamAskedEnd)
       IN  /\ stream.status = 206
           /\ stream.contentRange =
                <<"b", "y", "t", "e", "s", " ">> \o Digits(stream.reqStart) \o <<"-">>
                    \o Digits(StreamAskedEnd) \o <<"/">> \o Digits(stream.size)
           /\ stream.contentLength = StreamAskedEnd - stream.reqStart + 1
           /\ Len(stream.body) <= Len(whole)
           /\ stream.body = SubSeq(whole, 1, Len(stream.body))
           /\ (stream.pc = "done" /\ ~stream.aborted)
              => (stream.body = whole /\ Len(stream.body) = stream.contentLength)

C7_Witness ==
    /\ stream.pc = "done" /\ ~stream.aborted /\ StreamRanged
    /\ stream.reqEnd < 0 /\ stream.reqStart = 1 /\ stream.size = MaxFileSize
    /\ stream.status = 206 /\ Len(stream.body) = MaxFileSize - 1

\* C8: for a range whose start is at or past the resource size the response
\* is 416, no read cursor is ever opened and no byte is emitted.
C8_StartPastEofIs416 ==
    (stream.pc \in {"streaming", "done"} /\ StreamRanged /\ stream.reqStart >= stream.size)
    => /\ stream.status = 416
       /\ stream.pc = "done"
       /\ stream.opened = 0
       /\ stream.body = <<>>

C8_Witness ==
    /\ stream.pc = "done" /\ StreamRanged
    /\ stream.reqStart = stream.size /\ stream.status = 416

====
